---- MODULE Spec2Model ----
(***************************************************************************)
(* CurseForge auto-updater: file selection (poc.py get_latest_file and     *)
(* updater/utils.py get_latest_file), the freshness evaluation             *)
(* (is_download_needed), the fetch (downloader.download_file), the         *)
(* download-history store (load_metadata / save_metadata /                 *)
(* record_download) and the sync pass of updater/main.py.                  *)
(*                                                                         *)
(* Three specifications share the module:                                  *)
(*   SpecSel    the two selectors applied to bounded file lists            *)
(*   SpecFresh  the two freshness evaluators applied to bounded inputs     *)
(*   Spec       repeated sync passes of updater.main over one directory    *)
(*                                                                         *)
(* fileDate values are ISO-8601 strings compared lexicographically by the  *)
(* code; they are modelled by their rank 1..MaxDate in that order.         *)
(***************************************************************************)
EXTENDS Integers, Sequences, FiniteSets, TLC

\* ------------------------------------------------------------------ bounds
MaxId == 3
MaxDate == 2
MaxFiles == 2
MaxLen == 1
MaxPasses == 2
MaxText == 2

\* ------------------------------------------------------- values of fields
\* Python None for a string-valued field (fileName, hash, downloadUrl).
None == "None"
\* The falsy result of a selector or of a lookup (None or an empty dict).
NoRecord == [none |-> TRUE]
\* A serverPackFileId that is not set (None; 0 is falsy as well).
NoId == 0
\* hash_info.get("algo") == 1 is SHA-1.
SHA1 == 1
\* The id a serverPackFileId refers to.
PackId == MaxId + 1
\* Python truthiness of an optional string.
Truthy(s) == s # None /\ s # ""

Ids == 1 .. MaxId
Dates == 1 .. MaxDate
FileNames == {"a.jar", "b.jar"}
FileNameOf(id) == IF id % 2 = 1 THEN "a.jar" ELSE "b.jar"
Digits == <<"0", "1", "2", "3", "4", "5", "6", "7", "8", "9">>
\* str(file_info.get("id")) for the small ids of the model
str(n) == Digits[n + 1]

Sha(v) == [algo |-> SHA1, value |-> v]
\* an entry of another algorithm (2 is the catalog's code for MD5)
Md5(v) == [algo |-> 2, value |-> v]
HashValues == {"h1", "h2"}
\* hashes: ordered list of (algo, value); one digest per algorithm
HashLists ==
    {<< >>, <<Md5("m")>>}
    \cup {<<Sha(v)>> : v \in HashValues}
    \cup {<<Md5("m"), Sha(v)>> : v \in HashValues}
    \cup {<<Sha(v), Md5("m")>> : v \in HashValues}

\* A FileRecord of the catalog (the fields the code reads).
FileRecord(id, name, date, len, url, srv, spid, hs) ==
    [id |-> id, fileName |-> name, displayName |-> "n", fileDate |-> date,
     fileLength |-> len, downloadUrl |-> url, isServerPack |-> srv,
     serverPackFileId |-> spid, hashes |-> hs]

VARIABLES
    files,          \* the list returned by the file-listing endpoint
    latest_file,    \* the record the selector returned (latest_file)
    response,       \* what GET /mods/{modId}/files/{fileId} answers
    creds,          \* api_key and mod_id were passed to the poc selector
    resolver_calls, \* number of get_server_pack_file calls
    selector,       \* which selector ran: "none", "poc", "utils"
    disk,           \* download directory: file name -> size, or -1 if absent
    stat_ok,        \* file_path.stat() succeeds in the size check
    metadata,       \* the in-memory metadata dict
    needs_download, \* first component of is_download_needed's result
    reason,         \* second component of is_download_needed's result
    evaluator,      \* which evaluator ran: "none", "utils", "poc"
    pc,             \* position of the running sync pass
    store_doc,      \* download_metadata.json
    exit_code,      \* what main() returned (-1 while running)
    fetched,        \* ids for which download_file returned True so far
    downloaded,     \* bytes written by the running download
    dl_result,      \* outcome of download_file in this pass
    opened,         \* download_file opened (created/truncated) the artifact
    passes,         \* number of passes started
    requests,       \* outcomes of the catalog requests of the running pass
    message,        \* the line main() logged when it returned
    warning,        \* the last warning load_metadata / save_metadata printed
    store_ops,      \* SpecStore: the store operations applied so far
    loaded,         \* SpecStore: what the last load returned
    cli,            \* SpecCli: the command-line run
    procs,          \* SpecRace: the locals of the two passes
    exclusive       \* SpecRace: the passes are run one after the other

selVars == <<response, creds, resolver_calls, selector>>
evalVars == <<disk, stat_ok, metadata, needs_download, reason, evaluator>>
passVars == <<pc, store_doc, exit_code, fetched, downloaded, dl_result,
              opened, passes>>
obsVars == <<requests, message, warning>>
storeVars == <<store_ops, loaded>>
cliVars == <<cli>>
raceVars == <<procs, exclusive>>
\* the variables of the specifications other than the sync passes
otherVars == <<storeVars, cliVars, raceVars>>
vars == <<files, latest_file, selVars, evalVars, passVars, obsVars, otherVars>>

\* ------------------------------------------------------------ the selectors
\* max(files, key=lambda x: x.get("fileDate", "")): the FIRST element whose
\* key is maximal.
MaxByFileDate(fs) ==
    fs[CHOOSE i \in 1 .. Len(fs) :
          /\ \A j \in 1 .. Len(fs) : fs[j].fileDate <= fs[i].fileDate
          /\ \A j \in 1 .. (i - 1) : fs[j].fileDate < fs[i].fileDate]

is_server_file(file_info) == file_info.isServerPack

filter_server_files(fs) == SelectSeq(fs, is_server_file)

\* poc.get_server_pack_file: data.get("data"), None on a RequestException
get_server_pack_file(resp) ==
    IF resp.status = "ok" THEN resp.data ELSE NoRecord

\* poc.get_latest_file reaches the get_server_pack_file call
poc_calls_resolver(fs, has_creds) ==
    /\ fs # << >>
    /\ filter_server_files(fs) = << >>
    /\ MaxByFileDate(fs).serverPackFileId # NoId
    /\ has_creds

\* mutant: the server-pack branch takes the latest of the whole list
poc_get_latest_file_unfiltered(fs, has_creds, resp) ==
    IF fs = << >> THEN NoRecord
    ELSE IF filter_server_files(fs) # << >>
         THEN MaxByFileDate(fs)
         ELSE LET latest_regular_file == MaxByFileDate(fs)
                  server_pack_file == get_server_pack_file(resp)
              IN  IF /\ latest_regular_file.serverPackFileId # NoId
                     /\ has_creds
                     /\ server_pack_file # NoRecord
                  THEN server_pack_file
                  ELSE latest_regular_file

\* mutant: the result of the lookup is returned without the check for None
poc_get_latest_file_no_fallback(fs, has_creds, resp) ==
    IF fs = << >> THEN NoRecord
    ELSE IF filter_server_files(fs) # << >>
         THEN MaxByFileDate(filter_server_files(fs))
         ELSE LET latest_regular_file == MaxByFileDate(fs)
                  server_pack_file == get_server_pack_file(resp)
              IN  IF /\ latest_regular_file.serverPackFileId # NoId
                     /\ has_creds
                  THEN server_pack_file
                  ELSE latest_regular_file

poc_get_latest_file(fs, has_creds, resp) ==
    IF fs = << >> THEN NoRecord
    ELSE IF filter_server_files(fs) # << >>
         THEN MaxByFileDate(filter_server_files(fs))
         ELSE LET latest_regular_file == MaxByFileDate(fs)
                  server_pack_file == get_server_pack_file(resp)
              IN  IF /\ latest_regular_file.serverPackFileId # NoId
                     /\ has_creds
                     /\ server_pack_file # NoRecord
                  THEN server_pack_file
                  ELSE latest_regular_file

\* updater.utils.get_latest_file
get_latest_file(fs) ==
    IF fs = << >> THEN NoRecord ELSE MaxByFileDate(fs)


\* --------------------------------------------------- the download directory
\* disk maps a path below download_path to the size of the file there, -1
\* when nothing is there.  The key "" is download_path itself (Path / ""
\* is the directory): 0 when the directory exists.
Exists(dsk, name) == name \in DOMAIN dsk /\ dsk[name] # -1

\* One entry of download_metadata.json
SyncRecord(name, date, at, len, h, dn) ==
    [fileName |-> name, fileDate |-> date, downloadedAt |-> at,
     fileLength |-> len, hash |-> h, displayName |-> dn]

\* mutant: only the first entry of hashes is inspected
FirstSha1_head_only(hs) ==
    IF hs = << >> THEN None
    ELSE IF Head(hs).algo = SHA1 THEN Head(hs).value ELSE None

\* the loop over file_info.get("hashes", []): value of the first SHA-1 entry
RECURSIVE FirstSha1(_)
FirstSha1(hs) ==
    IF hs = << >> THEN None
    ELSE IF Head(hs).algo = SHA1 THEN Head(hs).value
         ELSE FirstSha1(Tail(hs))


\* ------------------------------------------------ the download-history store
\* store_doc is download_metadata.json: state "missing" (no file), "ok" (a
\* JSON object, in data), "corrupt" (text that is not JSON, such as a
\* truncated or empty document) or "undecodable" (bytes that are not text in
\* the encoding open(..., 'r') uses).
\* json.dump / json.load of an optional string: None <-> null
JsonStr(v) == IF v = None THEN "null" ELSE v
PyStr(v) == IF v = "null" THEN None ELSE v
JsonDump(md) ==
    [k \in DOMAIN md |->
        [fileName |-> JsonStr(md[k].fileName), fileDate |-> md[k].fileDate,
         downloadedAt |-> md[k].downloadedAt, fileLength |-> md[k].fileLength,
         hash |-> JsonStr(md[k].hash), displayName |-> JsonStr(md[k].displayName)]]
JsonLoad(obj) ==
    [k \in DOMAIN obj |->
        SyncRecord(PyStr(obj[k].fileName), obj[k].fileDate, obj[k].downloadedAt,
                   obj[k].fileLength, PyStr(obj[k].hash), PyStr(obj[k].displayName))]

\* downloader.load_metadata raises: the except clause names
\* json.JSONDecodeError and IOError; the UnicodeDecodeError of an undecodable
\* document is neither
load_metadata_raises(doc) == doc.state = "undecodable"

\* downloader.load_metadata, when it returns
load_metadata(doc) ==
    IF doc.state = "ok" THEN JsonLoad(doc.data) ELSE << >>

\* poc.load_download_metadata raises: json.load is not guarded
poc_load_download_metadata_raises(doc) ==
    doc.state \in {"corrupt", "undecodable"}

\* poc.load_download_metadata, when it returns
poc_load_download_metadata(doc) ==
    IF doc.state = "ok" THEN JsonLoad(doc.data) ELSE << >>

\* the warning load_metadata prints in its except clause (line 85)
load_warning(doc) ==
    IF doc.state = "corrupt" THEN "Could not load metadata" ELSE ""

\* mutant: the new entries are merged into the document that is there
save_metadata_merges(doc, md, outcome) ==
    IF outcome = "ok"
    THEN [state |-> "ok",
          data |-> [k \in DOMAIN doc.data \cup DOMAIN md |->
                       IF k \in DOMAIN md THEN JsonDump(md)[k] ELSE doc.data[k]]]
    ELSE IF outcome = "open failed" THEN doc
    ELSE [state |-> "corrupt", data |-> << >>]

\* downloader.save_metadata; outcome "ok", "open failed" (open(..., 'w')
\* raised, the document is untouched) or "write failed" (json.dump raised
\* after the document was truncated); IOError is caught in both cases
save_metadata(doc, md, outcome) ==
    IF outcome = "ok" THEN [state |-> "ok", data |-> JsonDump(md)]
    ELSE IF outcome = "open failed" THEN doc
    ELSE [state |-> "corrupt", data |-> << >>]

\* the warning save_metadata prints in its except clause (line 101)
save_warning(outcome, before) ==
    IF outcome = "ok" THEN before ELSE "Could not save metadata"

\* mutant: the hash recorded is the value of the first entry of hashes,
\* whatever its algorithm
record_download_first_hash(file_info, md, now) ==
    LET file_id == str(file_info.id)
        h == IF file_info.hashes = << >> THEN None
             ELSE Head(file_info.hashes).value
        entry == SyncRecord(file_info.fileName, file_info.fileDate, now,
                            file_info.fileLength, h, file_info.displayName)
    IN  [k \in DOMAIN md \cup {file_id} |-> IF k = file_id THEN entry ELSE md[k]]

\* mutant: the entry is put into a new dict, not into the loaded one
record_download_new_dict(file_info, md, now) ==
    LET file_id == str(file_info.id)
        entry == SyncRecord(file_info.fileName, file_info.fileDate, now,
                            file_info.fileLength, FirstSha1(file_info.hashes),
                            file_info.displayName)
    IN  [k \in {file_id} |-> entry]

\* metadata[file_id] = {...} of downloader.record_download
record_download(file_info, md, now) ==
    LET file_id == str(file_info.id)
        entry == SyncRecord(file_info.fileName, file_info.fileDate, now,
                            file_info.fileLength, FirstSha1(file_info.hashes),
                            file_info.displayName)
    IN  [k \in DOMAIN md \cup {file_id} |-> IF k = file_id THEN entry ELSE md[k]]

\* ------------------------------------------------ the freshness evaluators
\* mutant: the store is consulted before the presence of the artifact
is_download_needed_store_first(file_info, dsk, md, st_ok) ==
    LET file_name == file_info.fileName
        file_id == str(file_info.id)
        remote_hash == FirstSha1(file_info.hashes)
    IN  IF ~Truthy(file_name)
            THEN <<TRUE, "File info missing fileName">>
        ELSE IF file_id \notin DOMAIN md
            THEN <<TRUE, "No metadata found for this file">>
        ELSE IF ~Exists(dsk, file_name)
            THEN <<TRUE, "File not found locally">>
        ELSE IF md[file_id].fileDate # file_info.fileDate
            THEN <<TRUE, "File updated">>
        ELSE IF ~st_ok
            THEN <<TRUE, "Could not check local file size">>
        ELSE IF dsk[file_name] # file_info.fileLength
            THEN <<TRUE, "File size mismatch">>
        ELSE IF /\ Truthy(remote_hash)
                /\ Truthy(md[file_id].hash)
                /\ md[file_id].hash # remote_hash
            THEN <<TRUE, "File hash mismatch">>
        ELSE <<FALSE, "File is up to date">>

\* mutant: the size is checked before the date
is_download_needed_size_first(file_info, dsk, md, st_ok) ==
    LET file_name == file_info.fileName
        file_id == str(file_info.id)
        remote_hash == FirstSha1(file_info.hashes)
    IN  IF ~Truthy(file_name)
            THEN <<TRUE, "File info missing fileName">>
        ELSE IF ~Exists(dsk, file_name)
            THEN <<TRUE, "File not found locally">>
        ELSE IF file_id \notin DOMAIN md
            THEN <<TRUE, "No metadata found for this file">>
        ELSE IF ~st_ok
            THEN <<TRUE, "Could not check local file size">>
        ELSE IF dsk[file_name] # file_info.fileLength
            THEN <<TRUE, "File size mismatch">>
        ELSE IF md[file_id].fileDate # file_info.fileDate
            THEN <<TRUE, "File updated">>
        ELSE IF /\ Truthy(remote_hash)
                /\ Truthy(md[file_id].hash)
                /\ md[file_id].hash # remote_hash
            THEN <<TRUE, "File hash mismatch">>
        ELSE <<FALSE, "File is up to date">>

\* mutant: the size of the artifact is not compared with fileLength
is_download_needed_no_size(file_info, dsk, md, st_ok) ==
    LET file_name == file_info.fileName
        file_id == str(file_info.id)
        remote_hash == FirstSha1(file_info.hashes)
    IN  IF ~Truthy(file_name)
            THEN <<TRUE, "File info missing fileName">>
        ELSE IF ~Exists(dsk, file_name)
            THEN <<TRUE, "File not found locally">>
        ELSE IF file_id \notin DOMAIN md
            THEN <<TRUE, "No metadata found for this file">>
        ELSE IF md[file_id].fileDate # file_info.fileDate
            THEN <<TRUE, "File updated">>
        ELSE IF /\ Truthy(remote_hash)
                /\ Truthy(md[file_id].hash)
                /\ md[file_id].hash # remote_hash
            THEN <<TRUE, "File hash mismatch">>
        ELSE <<FALSE, "File is up to date">>

\* updater.utils.is_download_needed; st_ok: file_path.stat() succeeds
is_download_needed(file_info, dsk, md, st_ok) ==
    LET file_name == file_info.fileName
        file_id == str(file_info.id)
        remote_hash == FirstSha1(file_info.hashes)
    IN  IF ~Truthy(file_name)
            THEN <<TRUE, "File info missing fileName">>
        ELSE IF ~Exists(dsk, file_name)
            THEN <<TRUE, "File not found locally">>
        ELSE IF file_id \notin DOMAIN md
            THEN <<TRUE, "No metadata found for this file">>
        ELSE IF md[file_id].fileDate # file_info.fileDate
            THEN <<TRUE, "File updated">>
        ELSE IF ~st_ok
            THEN <<TRUE, "Could not check local file size">>
        ELSE IF dsk[file_name] # file_info.fileLength
            THEN <<TRUE, "File size mismatch">>
        ELSE IF /\ Truthy(remote_hash)
                /\ Truthy(md[file_id].hash)
                /\ md[file_id].hash # remote_hash
            THEN <<TRUE, "File hash mismatch">>
        ELSE <<FALSE, "File is up to date">>

\* poc.is_download_needed: download_path / None raises TypeError
poc_is_download_needed_raises(file_info) == file_info.fileName = None

\* poc.is_download_needed (no fileName check, no size check)
poc_is_download_needed(file_info, dsk, md) ==
    LET file_name == file_info.fileName
        file_id == str(file_info.id)
        remote_hash == FirstSha1(file_info.hashes)
    IN  IF ~Exists(dsk, file_name)
            THEN <<TRUE, "File not downloaded yet">>
        ELSE IF file_id \notin DOMAIN md
            THEN <<TRUE, "No metadata for this file">>
        ELSE IF md[file_id].fileDate # file_info.fileDate
            THEN <<TRUE, "File updated">>
        ELSE IF Truthy(remote_hash) /\ md[file_id].hash # remote_hash
            THEN <<TRUE, "File hash changed">>
        ELSE <<FALSE, "File is current">>

\* ------------------------------------------------- idle values of the parts
SelIdle ==
    /\ response = [status |-> "error", data |-> NoRecord]
    /\ creds = FALSE
    /\ resolver_calls = 0
    /\ selector = "none"

EvalIdle ==
    /\ stat_ok = TRUE
    /\ metadata = << >>
    /\ needs_download = FALSE
    /\ reason = ""
    /\ evaluator = "none"

PassIdle ==
    /\ pc = "off"
    /\ store_doc = [state |-> "missing", data |-> << >>]
    /\ exit_code = -1
    /\ fetched = {}
    /\ downloaded = 0
    /\ dl_result = "none"
    /\ opened = FALSE
    /\ passes = 0
    /\ requests = << >>
    /\ message = ""
    /\ warning = ""

StoreIdle == store_ops = << >> /\ loaded = << >>

CliIdle == cli = [pc |-> "off"]

RaceIdle == procs = << >> /\ exclusive = TRUE

OtherIdle == StoreIdle /\ CliIdle /\ RaceIdle

Paths == FileNames \cup {""}
NoDisk == [n \in Paths |-> -1]

\* ------------------------------------------------------ SpecSel: selectors
SelRecords ==
    {FileRecord(id, FileNameOf(id), d, 1, "url", srv, spid, << >>) :
        id \in Ids, d \in Dates, srv \in BOOLEAN, spid \in {NoId, PackId}}

\* lists of at most MaxFiles records with distinct ids
ListsOf(recs) ==
    {fs \in UNION {[1 .. n -> recs] : n \in 0 .. MaxFiles} :
        \A i, j \in 1 .. Len(fs) : i # j => fs[i].id # fs[j].id}

PackRecords ==
    {FileRecord(PackId, "server.zip", d, 1, "url", TRUE, NoId, << >>) :
        d \in Dates}

Responses ==
    {[status |-> "error", data |-> NoRecord],
     [status |-> "ok", data |-> NoRecord]}
    \cup {[status |-> "ok", data |-> r] : r \in PackRecords}

SelInit ==
    /\ files \in ListsOf(SelRecords)
    /\ latest_file = NoRecord
    /\ response \in Responses
    /\ creds \in BOOLEAN
    /\ resolver_calls = 0
    /\ selector = "none"
    /\ disk = NoDisk
    /\ EvalIdle
    /\ PassIdle
    /\ OtherIdle

PocSelect ==
    /\ selector = "none"
    /\ latest_file' = poc_get_latest_file(files, creds, response)
    /\ resolver_calls' =
          resolver_calls + (IF poc_calls_resolver(files, creds) THEN 1 ELSE 0)
    /\ selector' = "poc"
    /\ UNCHANGED <<files, response, creds, evalVars, passVars, obsVars,
                   otherVars>>

UtilsSelect ==
    /\ selector = "none"
    /\ latest_file' = get_latest_file(files)
    /\ selector' = "utils"
    /\ UNCHANGED <<files, response, creds, resolver_calls, evalVars, passVars,
                   obsVars, otherVars>>

SelNext == PocSelect \/ UtilsSelect

SpecSel == SelInit /\ [][SelNext]_vars

\* ---------------------------------------------------- claims on SpecSel
HasServerPack(fs) == \E i \in 1 .. Len(fs) : fs[i].isServerPack
InList(r, fs) == \E i \in 1 .. Len(fs) : fs[i] = r
Reorderings(fs) ==
    {[i \in 1 .. Len(fs) |-> fs[p[i]]] : p \in Permutations(1 .. Len(fs))}
\* the candidates a selector chooses among: the server packs when there are
\* any (poc selector), else the whole list
Candidates(fs, which) ==
    IF which = "poc" /\ HasServerPack(fs) THEN filter_server_files(fs) ELSE fs
TopDated(fs) ==
    {fs[i] : i \in {k \in 1 .. Len(fs) :
                       \A j \in 1 .. Len(fs) : fs[j].fileDate <= fs[k].fileDate}}

\* C1: when the list holds a record with isServerPack = true, the poc
\* selector returns a record of the list with isServerPack = true whose
\* fileDate is the maximum among the server-pack records, and the
\* single-file resolver is not called.
C1_ServerPackPreferred ==
    (selector = "poc" /\ HasServerPack(files)) =>
        /\ InList(latest_file, files)
        /\ latest_file.isServerPack
        /\ \A i \in 1 .. Len(files) :
              files[i].isServerPack => files[i].fileDate <= latest_file.fileDate
        /\ resolver_calls = 0

\* C1 witness: a server pack was returned although a regular file is newer
\* than every server pack.
C1_Witness ==
    /\ selector = "poc"
    /\ HasServerPack(files)
    /\ latest_file.isServerPack
    /\ \E i \in 1 .. Len(files) :
          ~files[i].isServerPack /\ files[i].fileDate > latest_file.fileDate

\* C9: with no server pack in the list and the resolver available, the poc
\* selector returns, for a record m of maximum fileDate: the resolved record
\* if m.serverPackFileId is set and the lookup succeeded with a record; m
\* itself if the lookup failed or returned nothing, or if serverPackFileId
\* is unset.
C9_ResolveOrFallback ==
    (selector = "poc" /\ creds /\ files # << >> /\ ~HasServerPack(files)) =>
        \E m \in TopDated(files) :
            IF m.serverPackFileId # NoId
            THEN IF response.status = "ok" /\ response.data # NoRecord
                 THEN latest_file = response.data /\ resolver_calls = 1
                 ELSE latest_file = m /\ resolver_calls = 1
            ELSE latest_file = m /\ resolver_calls = 0

\* C9 witness: the lookup failed and the selector fell back to the latest
\* regular record, which carries a serverPackFileId.
C9_Witness ==
    /\ selector = "poc" /\ creds /\ ~HasServerPack(files)
    /\ Len(files) > 1
    /\ response.status = "error"
    /\ resolver_calls = 1
    /\ InList(latest_file, files)
    /\ latest_file.serverPackFileId = PackId

\* C10 (as claimed): among the candidates sharing the maximum fileDate the
\* selected record is the one with the highest id, so every reordering of
\* the list selects the same record.
C10_TieBreakHighestId ==
    (selector \in {"poc", "utils"} /\ InList(latest_file, files)) =>
        /\ \A r \in TopDated(Candidates(files, selector)) : r.id <= latest_file.id
        /\ \A gs \in Reorderings(files) :
              (IF selector = "poc"
               THEN poc_get_latest_file(gs, creds, response)
               ELSE get_latest_file(gs)) = latest_file

\* --------------------------------------------- SpecFresh: the evaluators
FreshRecords ==
    {FileRecord(id, name, d, len, "url", FALSE, NoId, hs) :
        id \in Ids, name \in {None, "", "a.jar"}, d \in Dates,
        len \in 0 .. MaxLen, hs \in HashLists}

\* the directory holds a.jar or not; a directory that holds a file exists
FreshDisks ==
    {dsk \in [Paths -> -1 .. (MaxLen + 1)] :
        /\ dsk["b.jar"] = -1
        /\ dsk[""] \in {-1, 0}
        /\ dsk["a.jar"] # -1 => dsk[""] = 0}

StoredEntries ==
    {SyncRecord("a.jar", d, 1, 1, h, "n") :
        d \in Dates, h \in {None} \cup HashValues}

\* stores over the keys "1" and "2"
FreshStores ==
    {<< >>}
    \cup {[k \in {str(1)} |-> e] : e \in StoredEntries}
    \cup {[k \in {str(2)} |-> SyncRecord("b.jar", 1, 1, 1, None, "n")]}
    \cup {[k \in {str(1), str(2)} |->
              IF k = str(1) THEN e ELSE SyncRecord("b.jar", 1, 1, 1, None, "n")] :
          e \in StoredEntries}

FreshInit ==
    /\ files = << >>
    /\ latest_file \in FreshRecords
    /\ SelIdle
    /\ disk \in FreshDisks
    /\ stat_ok \in BOOLEAN
    /\ (~stat_ok => disk["a.jar"] # -1)
    /\ metadata \in FreshStores
    /\ needs_download = FALSE
    /\ reason = ""
    /\ evaluator = "none"
    /\ PassIdle
    /\ OtherIdle

UtilsEvaluate ==
    /\ evaluator = "none"
    /\ LET r == is_download_needed(latest_file, disk, metadata, stat_ok)
       IN  needs_download' = r[1] /\ reason' = r[2]
    /\ evaluator' = "utils"
    /\ UNCHANGED <<files, latest_file, selVars, disk, stat_ok, metadata,
                   passVars, obsVars, otherVars>>

PocEvaluate ==
    /\ evaluator = "none"
    /\ IF poc_is_download_needed_raises(latest_file)
       THEN /\ evaluator' = "poc raised"
            /\ UNCHANGED <<needs_download, reason>>
       ELSE /\ evaluator' = "poc"
            /\ LET r == poc_is_download_needed(latest_file, disk, metadata)
               IN  needs_download' = r[1] /\ reason' = r[2]
    /\ UNCHANGED <<files, latest_file, selVars, disk, stat_ok, metadata,
                   passVars, obsVars, otherVars>>

FreshNext == UtilsEvaluate \/ PocEvaluate

SpecFresh == FreshInit /\ [][FreshNext]_vars

\* --------------------------------------------------- claims on SpecFresh
Artifact == latest_file.fileName
Key == str(latest_file.id)
HasSha1Differing(h) ==
    \E i \in 1 .. Len(latest_file.hashes) :
        /\ latest_file.hashes[i].algo = SHA1
        /\ latest_file.hashes[i].value # h

\* C6: for a selected record with a non-empty fileName whose artifact is not
\* in the download directory, both evaluators answer (true, not present
\* locally) whatever the store holds.
C6_AbsentAlwaysNeeded ==
    (/\ evaluator \in {"utils", "poc"}
     /\ Truthy(Artifact)
     /\ ~Exists(disk, Artifact)) =>
        /\ needs_download
        /\ reason = IF evaluator = "utils" THEN "File not found locally"
                                           ELSE "File not downloaded yet"

\* C6 witness: the artifact is absent while the store holds a record for the
\* file's id with the same fileDate.
C6_Witness ==
    /\ evaluator = "utils"
    /\ Truthy(Artifact) /\ ~Exists(disk, Artifact)
    /\ Key \in DOMAIN metadata
    /\ metadata[Key].fileDate = latest_file.fileDate
    /\ needs_download /\ reason = "File not found locally"

\* C7: artifact present with size = fileLength, a record for the id with the
\* same fileDate and a non-null hash, and a SHA-1 entry in hashes whose value
\* differs from the stored hash: the evaluator answers (true, hash mismatch).
C7_HashChangeDetected ==
    (/\ evaluator = "utils"
     /\ Truthy(Artifact) /\ Exists(disk, Artifact)
     /\ stat_ok /\ disk[Artifact] = latest_file.fileLength
     /\ Key \in DOMAIN metadata
     /\ metadata[Key].fileDate = latest_file.fileDate
     /\ metadata[Key].hash # None
     /\ HasSha1Differing(metadata[Key].hash)) =>
        needs_download /\ reason = "File hash mismatch"

\* C7 witness: the SHA-1 entry follows an MD5 entry and differs from the
\* stored hash.
C7_Witness ==
    /\ evaluator = "utils"
    /\ Truthy(Artifact) /\ Exists(disk, Artifact)
    /\ stat_ok /\ disk[Artifact] = latest_file.fileLength
    /\ Key \in DOMAIN metadata
    /\ metadata[Key].fileDate = latest_file.fileDate
    /\ metadata[Key].hash = "h1"
    /\ latest_file.hashes = <<Md5("m"), Sha("h2")>>
    /\ reason = "File hash mismatch"

\* The reason the ordered checks of the Freshness Evaluator give: the first
\* that matches among missing name, not present, no record, date changed,
\* stat failed or size mismatch, hash changed; else current.
ExpectedReason ==
    IF Artifact = None \/ Artifact = "" THEN "File info missing fileName"
    ELSE IF disk[Artifact] = -1 THEN "File not found locally"
    ELSE IF Key \notin DOMAIN metadata THEN "No metadata found for this file"
    ELSE IF metadata[Key].fileDate # latest_file.fileDate THEN "File updated"
    ELSE IF ~stat_ok THEN "Could not check local file size"
    ELSE IF disk[Artifact] # latest_file.fileLength THEN "File size mismatch"
    ELSE IF metadata[Key].hash # None /\ HasSha1Differing(metadata[Key].hash)
         THEN "File hash mismatch"
    ELSE "File is up to date"

BuildIds == {1, 2}

SyncRecords ==
    {FileRecord(id, FileNameOf(id), d, MaxLen, url, srv, NoId, hs) :
        id \in BuildIds, d \in Dates, url \in {None, "url"}, srv \in BOOLEAN,
        hs \in {<< >>, <<Md5("m"), Sha("h1")>>}}

\* the non-empty lists of records with distinct ids
SyncLists ==
    {fs \in UNION {[1 .. n -> SyncRecords] : n \in 1 .. Cardinality(BuildIds)} :
        \A i, j \in 1 .. Len(fs) : i # j => fs[i].id # fs[j].id}

Init ==
    /\ files = << >>
    /\ latest_file = NoRecord
    /\ SelIdle
    /\ disk = NoDisk
    /\ EvalIdle
    /\ PassIdle
    /\ OtherIdle

Running == pc \notin {"off", "done"}

\* a return of main() (or the exit of the process), after the log line msg
Return(code, msg) == pc' = "done" /\ exit_code' = code /\ message' = msg

\* main() is entered (lines 23-52): get_config() ends the process with
\* status 1 when MOD_ID is not a number (config.py 27-32); a missing API key
\* ends the pass with 1
StartPass ==
    /\ pc \in {"off", "done"}
    /\ passes < MaxPasses
    /\ passes' = passes + 1
    /\ files' = << >>
    /\ latest_file' = NoRecord
    /\ metadata' = << >>
    /\ needs_download' = FALSE
    /\ reason' = ""
    /\ stat_ok' = TRUE
    /\ downloaded' = 0
    /\ dl_result' = "none"
    /\ opened' = FALSE
    /\ requests' = << >>
    /\ warning' = ""
    /\ \E config \in {"ok", "invalid mod id", "no api key"} :
          IF config = "ok"
          THEN pc' = "mod_info" /\ exit_code' = -1 /\ message' = ""
          ELSE IF config = "invalid mod id" THEN Return(1, "Invalid MOD_ID")
          ELSE Return(1, "API key missing")
    /\ UNCHANGED <<selVars, otherVars, disk, evaluator, store_doc, fetched>>

\* mutant: the failure of the mod-info query is logged and the pass goes on
GetModInfo_continues ==
    /\ pc = "mod_info"
    /\ \E ok \in BOOLEAN :
          /\ requests' = Append(requests, IF ok THEN "ok" ELSE "failed")
          /\ pc' = "mod_files"
          /\ UNCHANGED <<exit_code, message>>
    /\ UNCHANGED <<files, latest_file, selVars, otherVars, evalVars, store_doc,
                   fetched, downloaded, dl_result, opened, passes, warning>>

\* api.get_mod_info (lines 54-68): one request; an exception ends the pass
\* with 1
GetModInfo ==
    /\ pc = "mod_info"
    /\ \E ok \in BOOLEAN :
          IF ok THEN /\ requests' = Append(requests, "ok")
                     /\ pc' = "mod_files"
                     /\ UNCHANGED <<exit_code, message>>
                ELSE /\ requests' = Append(requests, "failed")
                     /\ Return(1, "Failed to fetch mod info")
    /\ UNCHANGED <<files, latest_file, selVars, otherVars, evalVars, store_doc,
                   fetched, downloaded, dl_result, opened, passes, warning>>

\* api.get_mod_files (lines 70-82): one request; an exception or an empty
\* list ends the pass with 1
GetModFiles ==
    /\ pc = "mod_files"
    /\ \/ /\ requests' = Append(requests, "failed")
          /\ Return(1, "Failed to fetch mod files")
          /\ UNCHANGED files
       \/ /\ requests' = Append(requests, "ok")
          /\ Return(1, "No files found for this mod")
          /\ UNCHANGED files
       \/ /\ requests' = Append(requests, "ok")
          /\ files' \in SyncLists
          /\ pc' = "select"
          /\ UNCHANGED <<exit_code, message>>
    /\ UNCHANGED <<latest_file, selVars, otherVars, evalVars, store_doc,
                   fetched, downloaded, dl_result, opened, passes, warning>>

\* utils.get_latest_file(files) (lines 84-88); the list is not read again
\* and is dropped here
SelectLatest ==
    /\ pc = "select"
    /\ latest_file' = get_latest_file(files)
    /\ IF latest_file' = NoRecord
       THEN Return(1, "No latest file found.")
       ELSE pc' = "check" /\ UNCHANGED <<exit_code, message>>
    /\ files' = << >>
    /\ UNCHANGED <<selVars, requests, warning, otherVars, evalVars, store_doc,
                   fetched, downloaded, dl_result, opened, passes>>

\* mutant: the download branch is entered whatever is_download_needed said
CheckDownload_always_downloads ==
    /\ pc = "check"
    /\ metadata' = load_metadata(store_doc)
    /\ warning' = load_warning(store_doc)
    /\ \E st \in BOOLEAN :
          /\ ~st => Exists(disk, latest_file.fileName)
          /\ stat_ok' = st
          /\ LET r == is_download_needed(latest_file, disk, metadata', st)
             IN  /\ needs_download' = r[1]
                 /\ reason' = r[2]
                 /\ pc' = "download" /\ UNCHANGED <<exit_code, message>>
    /\ UNCHANGED <<files, latest_file, selVars, otherVars, disk, evaluator,
                   store_doc, fetched, downloaded, dl_result, opened, passes,
                   requests>>

\* load_metadata and is_download_needed (lines 96-101, 117-119)
CheckDownload ==
    /\ pc = "check"
    /\ metadata' = load_metadata(store_doc)
    /\ warning' = load_warning(store_doc)
    /\ \E st \in BOOLEAN :
          /\ ~st => Exists(disk, latest_file.fileName)
          /\ stat_ok' = st
          /\ LET r == is_download_needed(latest_file, disk, metadata', st)
             IN  /\ needs_download' = r[1]
                 /\ reason' = r[2]
                 /\ IF r[1] THEN pc' = "download" /\ UNCHANGED <<exit_code, message>>
                            ELSE Return(0, "File is up to date")
    /\ UNCHANGED <<files, latest_file, selVars, otherVars, disk, evaluator,
                   store_doc, fetched, downloaded, dl_result, opened, passes,
                   requests>>

\* mutant: the except clauses return False without the unlink
Cleanup_no_unlink(dsk, name, unlink_ok) == [disk |-> dsk, result |-> "false"]

\* mutant: the except clauses end with return True
Cleanup_reports_success(dsk, name, unlink_ok) ==
    IF ~Exists(dsk, name) THEN [disk |-> dsk, result |-> "true"]
    ELSE IF unlink_ok
         THEN [disk |-> [dsk EXCEPT ![name] = -1], result |-> "true"]
         ELSE [disk |-> dsk, result |-> "raised"]

\* the "Clean up partial download" of both except clauses of download_file:
\* if file_path.exists(): file_path.unlink(), then return False; an unlink
\* that raises leaves download_file by that exception
Cleanup(dsk, name, unlink_ok) ==
    IF ~Exists(dsk, name) THEN [disk |-> dsk, result |-> "false"]
    ELSE IF unlink_ok
         THEN [disk |-> [dsk EXCEPT ![name] = -1], result |-> "false"]
         ELSE [disk |-> dsk, result |-> "raised"]

\* mutant: the else branch of "if success" logs the failure and returns 0
MainAfterDownload_returns_zero(result) ==
    IF result = "true" THEN pc' = "record" /\ UNCHANGED <<exit_code, message>>
    ELSE IF result = "false" THEN Return(0, "Download failed")
    ELSE Return(1, "Download error")

\* main after download_file (main.py 105-116): True goes on to
\* record_download, False and an exception end the pass with 1
MainAfterDownload(result) ==
    IF result = "true" THEN pc' = "record" /\ UNCHANGED <<exit_code, message>>
    ELSE IF result = "false" THEN Return(1, "Download failed")
    ELSE Return(1, "Download error")

\* mutant: main does not test the result of download_file before recording
DownloadNoUrl_unchecked ==
    /\ pc = "download"
    /\ ~Truthy(latest_file.downloadUrl)
    /\ dl_result' = "false"
    /\ pc' = "record"
    /\ UNCHANGED <<files, latest_file, selVars, obsVars, otherVars, evalVars,
                   store_doc, exit_code, fetched, downloaded, opened, passes>>

\* download_file without a downloadUrl (downloader.py 17-23): returns False
\* before anything is touched; main returns 1
DownloadNoUrl ==
    /\ pc = "download"
    /\ ~Truthy(latest_file.downloadUrl)
    /\ dl_result' = "false"
    /\ MainAfterDownload("false")
    /\ UNCHANGED <<files, latest_file, selVars, otherVars, evalVars, store_doc,
                   fetched, downloaded, opened, passes, requests, warning>>

\* mutant: the except clauses unlink only what this call has created
DownloadRequest_keeps_existing ==
    /\ pc = "download"
    /\ Truthy(latest_file.downloadUrl)
    /\ LET name == latest_file.fileName
           made == [disk EXCEPT ![""] = 0]
       IN  \/ /\ disk' = [made EXCEPT ![name] = 0]
              /\ opened' = TRUE
              /\ pc' = "stream"
              /\ UNCHANGED <<dl_result, exit_code, message>>
           \/ /\ disk' = made
              /\ dl_result' = "false"
              /\ MainAfterDownload("false")
              /\ UNCHANGED opened
    /\ UNCHANGED <<files, latest_file, selVars, otherVars, stat_ok, metadata,
                   needs_download, reason, evaluator, store_doc, fetched,
                   downloaded, passes, requests, warning>>

\* mutant: download_file goes on to mkdir and the request without the test
\* of download_url
DownloadRequest_no_url_check ==
    /\ pc = "download"
    /\ LET name == latest_file.fileName
           made == [disk EXCEPT ![""] = 0]
       IN  \/ /\ disk' = [made EXCEPT ![name] = 0]
              /\ opened' = TRUE
              /\ pc' = "stream"
              /\ UNCHANGED <<dl_result, exit_code, message>>
           \/ \E unlink_ok \in BOOLEAN :
                 LET c == Cleanup(made, name, unlink_ok)
                 IN  /\ disk' = c.disk
                     /\ dl_result' = c.result
                     /\ MainAfterDownload(c.result)
                     /\ UNCHANGED opened
    /\ UNCHANGED <<files, latest_file, selVars, otherVars, stat_ok, metadata,
                   needs_download, reason, evaluator, store_doc, fetched,
                   downloaded, passes, requests, warning>>

\* download_file up to the open of the artifact (downloader.py 25-42): the
\* directory is created; the request or the open fails (cleanup, False) or
\* the artifact is created/truncated and the stream starts
DownloadRequest ==
    /\ pc = "download"
    /\ Truthy(latest_file.downloadUrl)
    /\ LET name == latest_file.fileName
           made == [disk EXCEPT ![""] = 0]
       IN  \/ /\ disk' = [made EXCEPT ![name] = 0]
              /\ opened' = TRUE
              /\ pc' = "stream"
              /\ UNCHANGED <<dl_result, exit_code, message>>
           \/ \E unlink_ok \in BOOLEAN :
                 LET c == Cleanup(made, name, unlink_ok)
                 IN  /\ disk' = c.disk
                     /\ dl_result' = c.result
                     /\ MainAfterDownload(c.result)
                     /\ UNCHANGED opened
    /\ UNCHANGED <<files, latest_file, selVars, otherVars, stat_ok, metadata,
                   needs_download, reason, evaluator, store_doc, fetched,
                   downloaded, passes, requests, warning>>

\* one chunk of response.iter_content written to the artifact
StreamChunk ==
    /\ pc = "stream"
    /\ downloaded <= MaxLen
    /\ downloaded' = downloaded + 1
    /\ disk' = [disk EXCEPT ![latest_file.fileName] = @ + 1]
    /\ UNCHANGED <<files, latest_file, selVars, obsVars, otherVars, stat_ok,
                   metadata, needs_download, reason, evaluator, pc, store_doc,
                   exit_code, fetched, dl_result, opened, passes>>

\* the stream ends without an error: download_file returns True
StreamEnd ==
    /\ pc = "stream"
    /\ dl_result' = "true"
    /\ fetched' = fetched \cup {latest_file.id}
    /\ MainAfterDownload("true")
    /\ UNCHANGED <<files, latest_file, selVars, otherVars, evalVars, store_doc,
                   downloaded, opened, passes, requests, warning>>

\* a RequestException from the stream or an OSError from f.write: the
\* except clauses clean up; main returns 1 (False or an exception)
StreamFail ==
    /\ pc = "stream"
    /\ \E unlink_ok \in BOOLEAN :
          LET c == Cleanup(disk, latest_file.fileName, unlink_ok)
          IN  /\ disk' = c.disk
              /\ dl_result' = c.result
              /\ MainAfterDownload(c.result)
    /\ UNCHANGED <<files, latest_file, selVars, otherVars, stat_ok, metadata,
                   needs_download, reason, evaluator, store_doc, fetched,
                   downloaded, opened, passes, requests, warning>>

\* mutant: a failed save removes the artifact and fails the pass
RecordDownload_rolls_back ==
    /\ pc = "record"
    /\ metadata' = record_download(latest_file, metadata, passes)
    /\ \E outcome \in {"ok", "open failed", "write failed"} :
          /\ store_doc' = save_metadata(store_doc, metadata', outcome)
          /\ warning' = save_warning(outcome, warning)
          /\ IF outcome = "ok"
             THEN /\ Return(0, "Download completed and recorded successfully!")
                  /\ UNCHANGED disk
             ELSE /\ Return(1, "Download error")
                  /\ disk' = [disk EXCEPT ![latest_file.fileName] = -1]
    /\ UNCHANGED <<files, latest_file, selVars, otherVars, stat_ok,
                   needs_download, reason, evaluator, fetched, downloaded,
                   dl_result, opened, passes, requests>>

\* main after download_file returned True (main.py 107-110):
\* downloader.record_download, which saves the whole dict (an IOError of
\* the save is caught and printed as a warning); main returns 0
RecordDownload ==
    /\ pc = "record"
    /\ metadata' = record_download(latest_file, metadata, passes)
    /\ \E outcome \in {"ok", "open failed", "write failed"} :
          /\ store_doc' = save_metadata(store_doc, metadata', outcome)
          /\ warning' = save_warning(outcome, warning)
    /\ Return(0, "Download completed and recorded successfully!")
    /\ UNCHANGED <<files, latest_file, selVars, otherVars, disk, stat_ok,
                   needs_download, reason, evaluator, fetched, downloaded,
                   dl_result, opened, passes, requests>>

\* KeyboardInterrupt (main.py 121-123): main returns 1, nothing is undone
Interrupt ==
    /\ Running
    /\ Return(1, "Operation cancelled by user")
    /\ UNCHANGED <<files, latest_file, selVars, otherVars, evalVars, store_doc,
                   fetched, downloaded, dl_result, opened, passes, requests,
                   warning>>

Next ==
    \/ StartPass
    \/ GetModInfo
    \/ GetModFiles
    \/ SelectLatest
    \/ CheckDownload
    \/ DownloadNoUrl
    \/ DownloadRequest
    \/ StreamChunk
    \/ StreamEnd
    \/ StreamFail
    \/ RecordDownload
    \/ Interrupt

Spec == Init /\ [][Next]_vars

\* -------------------------------------------------------- claims on Spec
\* C2 (as claimed): when the list the catalog returned holds a server pack,
\* the file the pass goes on to evaluate and download is a server pack.
C2_PassTargetsServerPack ==
    [][(pc = "select" /\ pc' = "check" /\ HasServerPack(files)) =>
           latest_file'.isServerPack]_vars

\* C3 (as claimed): once a pass has fetched the file (download_file returned
\* True) and recorded it (the saved document reloads to the recorded dict),
\* a second evaluation of the same record against the untouched artifact and
\* the reloaded store answers (false, up to date).
C3_SecondCheckCurrent ==
    (/\ pc = "done" /\ exit_code = 0 /\ dl_result = "true"
     /\ store_doc.state = "ok"
     /\ load_metadata(store_doc) = metadata) =>
        is_download_needed(latest_file, disk, load_metadata(store_doc), TRUE)
            = <<FALSE, "File is up to date">>

\* C4: when download_file returns False after it had opened the artifact for
\* writing, no file is left at download_path / fileName.
C4_FailedFetchLeavesNoArtifact ==
    (dl_result = "false" /\ opened) => ~Exists(disk, latest_file.fileName)

\* C4 witness: the stream failed after a chunk had been written and the
\* partial artifact is gone.
C4_Witness ==
    /\ pc = "done" /\ exit_code = 1
    /\ dl_result = "false" /\ opened /\ downloaded > 0
    /\ ~Exists(disk, latest_file.fileName)

\* C5: from an absent store, the store holds a record under key K only if
\* download_file returned True earlier for a record whose id is K.
C5_RecordOnlyAfterFetch ==
    store_doc.state = "ok" =>
        \A k \in DOMAIN store_doc.data : \E id \in fetched : k = str(id)

\* C5 witness: the store holds a record for one id after a later pass for
\* another id failed in the fetch and one pass ended on a catalog failure.
C5_Witness ==
    /\ pc = "done" /\ exit_code = 1 /\ dl_result = "false"
    /\ store_doc.state = "ok"
    /\ DOMAIN store_doc.data # {}
    /\ str(latest_file.id) \notin DOMAIN store_doc.data

\* the fetch of this pass was interrupted in the stream: the artifact was
\* opened and download_file neither returned nor reached an except clause
InterruptedMidStream ==
    pc = "done" /\ exit_code = 1 /\ opened /\ dl_result = "none"

\* every content the store can have under the key of record r (the other
\* keys are not read by the evaluation of r)
StoresFor(r) ==
    {<< >>}
    \cup {[k \in {str(r.id)} |-> SyncRecord(r.fileName, d, 1, len, h, "n")] :
            d \in Dates, len \in 0 .. (MaxLen + 1),
            h \in {None, "m"} \cup HashValues}

\* C11: after a fetch was interrupted in the stream and left an artifact of
\* fewer bytes than fileLength, the evaluation the next pass makes of the
\* same record against that directory answers true for every content of
\* the store, whether or not the stat of the artifact succeeds.
C11_TruncatedIsRefetched ==
    (/\ InterruptedMidStream
     /\ disk[latest_file.fileName] < latest_file.fileLength) =>
        \A md \in StoresFor(latest_file) \cup {load_metadata(store_doc)} :
            \A st \in BOOLEAN :
                is_download_needed(latest_file, disk, md, st)[1]

\* C11 witness: the interrupted fetch left a truncated artifact while the
\* store holds the record of an earlier fetch of the same file, with the same
\* fileDate and hash.
C11_Witness ==
    /\ InterruptedMidStream
    /\ Exists(disk, latest_file.fileName)
    /\ disk[latest_file.fileName] < latest_file.fileLength
    /\ store_doc.state = "ok"
    /\ str(latest_file.id) \in DOMAIN store_doc.data
    /\ store_doc.data[str(latest_file.id)].fileDate = latest_file.fileDate
    /\ store_doc.data[str(latest_file.id)].hash
           = JsonStr(FirstSha1(latest_file.hashes))

\* download_file was called in this pass
DownloadCalled == pc \in {"stream", "record"} \/ opened \/ dl_result # "none"

\* C12: download_file is called only after is_download_needed answered true
\* for the selected record; no step before the download branch, the check
\* included, changes the directory or the store document; and an answer
\* (false, up to date) ends the pass with 0.
C12_DownloadOnlyWhenNeeded ==
    /\ [](DownloadCalled => needs_download)
    /\ [][pc \notin {"download", "stream", "record"} =>
              UNCHANGED <<disk, store_doc>>]_vars
    /\ [][(pc = "check" /\ reason' = "File is up to date") =>
              (pc' = "done" /\ exit_code' = 0 /\ ~needs_download')]_vars

\* C12 witness: a later pass found the artifact of an earlier pass up to
\* date and ended with 0 without calling download_file.
C12_Witness ==
    /\ pc = "done" /\ exit_code = 0 /\ passes > 1
    /\ ~needs_download /\ reason = "File is up to date"
    /\ ~DownloadCalled
    /\ Exists(disk, latest_file.fileName)
    /\ str(latest_file.id) \in DOMAIN metadata

\* the pass is about to call download_file for a record without downloadUrl
NoUrlSelected == pc = "download" /\ ~Truthy(latest_file.downloadUrl)

\* C13: for a selected record without downloadUrl the step out of the
\* download branch ends the pass with 1 and changes neither the directory
\* (no mkdir, no file) nor the store document nor the fetch history, nothing
\* is opened, and download_file's result, when it returned, is False.
C13_NoUrlFailsUntouched ==
    /\ [][NoUrlSelected =>
              /\ pc' = "done" /\ exit_code' = 1
              /\ dl_result' \in {"false", "none"}
              /\ UNCHANGED <<disk, store_doc, fetched, opened>>]_vars
    /\ []((dl_result = "false" /\ ~Truthy(latest_file.downloadUrl)) =>
              (pc = "done" /\ exit_code = 1 /\ ~opened))

\* C13 witness: the first pass selected a record without downloadUrl and
\* ended with 1; the download directory was not even created.
C13_Witness ==
    /\ pc = "done" /\ exit_code = 1 /\ dl_result = "false"
    /\ latest_file.downloadUrl = None
    /\ needs_download
    /\ disk = NoDisk
    /\ store_doc.state = "missing"

\* ------------------------------------ SpecStore: the download-history store
\* the entries a mapping can hold; fileName and hash can be None
StoreEntries ==
    {SyncRecord(name, d, 1, MaxLen, h, "n") :
        name \in {None, "a.jar"}, d \in Dates, h \in {None, "h1"}}

\* the mappings over the keys "1" and "2"
StoreMaps ==
    UNION {[ks -> StoreEntries] : ks \in SUBSET {str(1), str(2)}}

\* the documents that can be in the directory before an operation
StoreDocs ==
    {[state |-> st, data |-> << >>] : st \in {"missing", "corrupt", "undecodable"}}
    \cup {[state |-> "ok", data |-> JsonDump(md)] : md \in StoreMaps}

StoreInit ==
    /\ files = << >>
    /\ latest_file = NoRecord
    /\ SelIdle
    /\ disk = NoDisk
    /\ stat_ok = TRUE
    /\ metadata \in StoreMaps
    /\ needs_download = FALSE
    /\ reason = ""
    /\ evaluator = "none"
    /\ pc = "off"
    /\ store_doc \in StoreDocs
    /\ exit_code = -1
    /\ fetched = {}
    /\ downloaded = 0
    /\ dl_result = "none"
    /\ opened = FALSE
    /\ passes = 0
    /\ requests = << >>
    /\ message = ""
    /\ warning = ""
    /\ StoreIdle
    /\ CliIdle
    /\ RaceIdle

LastOp == store_ops[Len(store_ops)]

\* one load is applied, to the document as it is or after the save
NotLoadedYet == IF store_ops = << >> THEN TRUE ELSE LastOp[1] = "save"

\* save_metadata(download_path, metadata)
SaveMetadata ==
    /\ store_ops = << >>
    /\ \E outcome \in {"ok", "open failed", "write failed"} :
          /\ store_doc' = save_metadata(store_doc, metadata, outcome)
          /\ warning' = save_warning(outcome, warning)
          /\ store_ops' = Append(store_ops, <<"save", outcome>>)
    /\ UNCHANGED <<files, latest_file, selVars, disk, stat_ok, metadata,
                   needs_download, reason, evaluator, pc, exit_code, fetched,
                   downloaded, dl_result, opened, passes, requests, message,
                   loaded, cliVars, raceVars>>

\* load_metadata(download_path)
LoadMetadata ==
    /\ NotLoadedYet
    /\ IF load_metadata_raises(store_doc)
       THEN /\ store_ops' = Append(store_ops, <<"load", "raised">>)
            /\ UNCHANGED <<loaded, warning>>
       ELSE /\ store_ops' = Append(store_ops, <<"load", "returned">>)
            /\ loaded' = load_metadata(store_doc)
            /\ warning' = load_warning(store_doc)
    /\ UNCHANGED <<files, latest_file, selVars, evalVars, passVars, requests,
                   message, cliVars, raceVars>>

\* poc.load_download_metadata(download_path)
PocLoadMetadata ==
    /\ NotLoadedYet
    /\ IF poc_load_download_metadata_raises(store_doc)
       THEN /\ store_ops' = Append(store_ops, <<"poc load", "raised">>)
            /\ UNCHANGED loaded
       ELSE /\ store_ops' = Append(store_ops, <<"poc load", "returned">>)
            /\ loaded' = poc_load_download_metadata(store_doc)
    /\ UNCHANGED <<files, latest_file, selVars, evalVars, passVars, obsVars,
                   cliVars, raceVars>>

StoreNext == SaveMetadata \/ LoadMetadata \/ PocLoadMetadata

SpecStore == StoreInit /\ [][StoreNext]_vars

\* -------------------------------------------------- claims on SpecStore
\* C14 (as claimed): a load, by the updater or by the prototype, of a store
\* document that does not exist or cannot be parsed returns the empty
\* mapping without raising, and the updater reports a warning when the
\* document exists.
C14_LoadRecovers ==
    (/\ store_ops # << >>
     /\ LastOp[1] \in {"load", "poc load"}
     /\ store_doc.state \in {"missing", "corrupt", "undecodable"}) =>
        /\ LastOp[2] = "returned"
        /\ loaded = << >>
        /\ (LastOp[1] = "load" /\ store_doc.state # "missing") =>
               warning = "Could not load metadata"

\* C15: after save_metadata wrote the mapping (no IOError) a load returns a
\* mapping equal to the saved one, field for field, whatever document was
\* there before, and the document holds exactly the saved mapping.
C15_SaveLoadRoundTrip ==
    store_ops = <<<<"save", "ok">>, <<"load", "returned">>>> =>
        /\ loaded = metadata
        /\ store_doc = [state |-> "ok", data |-> JsonDump(metadata)]
        /\ DOMAIN store_doc.data = DOMAIN metadata

\* C15 witness: a mapping of two records, one with a null hash and a null
\* fileName, was saved and loaded back.
C15_Witness ==
    /\ store_ops = <<<<"save", "ok">>, <<"load", "returned">>>>
    /\ DOMAIN metadata = {str(1), str(2)}
    /\ metadata[str(1)].hash = None /\ metadata[str(1)].fileName = None
    /\ metadata[str(2)].hash = "h1"
    /\ loaded = metadata
    /\ store_doc.data[str(1)].hash = "null"

\* the last catalog request of the running pass failed
CatalogFailed(rs) == IF rs = << >> THEN FALSE ELSE rs[Len(rs)] = "failed"

\* C16: once a catalog request of a pass has failed the pass is over with
\* exit code 1: that request was the only failed one and at most the second
\* of the pass (no retry), nothing was selected or evaluated, download_file
\* was not called, and the step of the failure changed neither the
\* directory nor the store document.
C16_CatalogFailureAborts ==
    /\ [](CatalogFailed(requests) =>
             /\ pc = "done" /\ exit_code = 1
             /\ Len(requests) <= 2
             /\ \A i \in 1 .. (Len(requests) - 1) : requests[i] = "ok"
             /\ latest_file = NoRecord
             /\ reason = "" /\ ~needs_download
             /\ ~DownloadCalled)
    /\ [][(~CatalogFailed(requests) /\ CatalogFailed(requests')) =>
              UNCHANGED <<disk, store_doc, metadata, fetched>>]_vars

\* C16 witness: the file-list query of a second pass failed after the
\* mod-info query had succeeded; the record of the first pass is still in
\* the store.
C16_Witness ==
    /\ pc = "done" /\ exit_code = 1 /\ passes = 2
    /\ requests = <<"ok", "failed">>
    /\ message = "Failed to fetch mod files"
    /\ store_doc.state = "ok" /\ DOMAIN store_doc.data # {}

\* C17: when save_metadata failed in record_download (its warning was
\* printed) the pass has ended with 0 and its success line, and the artifact
\* download_file wrote is in the directory with every byte written.
C17_SaveFailureKeepsArtifact ==
    warning = "Could not save metadata" =>
        /\ pc = "done" /\ exit_code = 0
        /\ message = "Download completed and recorded successfully!"
        /\ dl_result = "true"
        /\ Exists(disk, latest_file.fileName)
        /\ disk[latest_file.fileName] = downloaded

\* C17 witness: the write of the document failed half-way and left it
\* unparseable; the artifact of the pass is in place.
C17_Witness ==
    /\ warning = "Could not save metadata"
    /\ store_doc.state = "corrupt"
    /\ exit_code = 0
    /\ downloaded > 0
    /\ disk[latest_file.fileName] = downloaded

\* the lines main() logs on its failure paths, and the exit of get_config
FailureMessages ==
    {"Invalid MOD_ID", "API key missing", "Failed to fetch mod info",
     "Failed to fetch mod files", "No files found for this mod",
     "No latest file found.", "Download failed", "Download error",
     "Operation cancelled by user"}

\* C18: a pass that has ended returned 0 or 1; it returned 0 only if the
\* selected file was found up to date or download_file returned True; and it
\* returned 1 whenever it ended on a failure: an invalid MOD_ID, a missing
\* API key, a failed catalog request, an empty list, no selectable file, a
\* missing downloadUrl or a failed fetch, or an interruption.
C18_ExitStatus ==
    pc = "done" =>
        /\ exit_code \in {0, 1}
        /\ exit_code = 0 =>
              \/ ~needs_download /\ reason = "File is up to date"
              \/ dl_result = "true"
        /\ (\/ message \in FailureMessages
            \/ CatalogFailed(requests)
            \/ dl_result \in {"false", "raised"}) => exit_code = 1
        /\ (exit_code = 1) => message \in FailureMessages

\* C18 witness: the fetch failed in the stream, download_file returned False
\* and the pass ended with 1.
C18_Witness ==
    /\ pc = "done" /\ exit_code = 1
    /\ message = "Download failed"
    /\ opened /\ dl_result = "false"
    /\ passes > 1

\* ------------------------------------------- SpecCli: the mod id of a run
\* texts are sequences of characters; the characters tried
Chars == {"0", "7", "-", " ", "a"}
Texts == UNION {[1 .. n -> Chars] : n \in 0 .. MaxText}

RECURSIVE LStrip(_)
LStrip(t) == IF t # << >> /\ Head(t) = " " THEN LStrip(Tail(t)) ELSE t
RECURSIVE RStrip(_)
RStrip(t) ==
    IF t # << >> /\ t[Len(t)] = " " THEN RStrip(SubSeq(t, 1, Len(t) - 1)) ELSE t

IsDigit(c) == \E i \in 1 .. 10 : Digits[i] = c
DigitValue(c) == CHOOSE v \in 0 .. 9 : Digits[v + 1] = c
RECURSIVE Decimal(_)
Decimal(ds) ==
    IF ds = << >> THEN 0
    ELSE 10 * Decimal(SubSeq(ds, 1, Len(ds) - 1)) + DigitValue(ds[Len(ds)])

\* Python int(text): surrounding whitespace is dropped, one sign is
\* allowed, the rest must be one or more digits; ok = FALSE is ValueError
py_int(t) ==
    LET st == RStrip(LStrip(t))
        neg == st # << >> /\ Head(st) = "-"
        body == IF neg THEN Tail(st) ELSE st
    IN  IF body # << >> /\ \A i \in 1 .. Len(body) : IsDigit(body[i])
        THEN [ok |-> TRUE, value |-> IF neg THEN 0 - Decimal(body) ELSE Decimal(body)]
        ELSE [ok |-> FALSE, value |-> 0]

\* Python str(n) of an integer, as a text
RECURSIVE py_str_nat(_)
py_str_nat(n) ==
    IF n < 10 THEN <<Digits[n + 1]>>
    ELSE py_str_nat(n \div 10) \o <<Digits[(n % 10) + 1]>>
py_str(n) == IF n < 0 THEN <<"-">> \o py_str_nat(0 - n) ELSE py_str_nat(n)

\* utils.validate_mod_id(mod_id): int(mod_id), ValueError when int() fails
validate_mod_id(t) == py_int(t)

\* config.get_config (lines 27-34): config["mod_id"] = str(int(MOD_ID));
\* ok = FALSE is the sys.exit(1) of the except clause
get_config(env_mod_id) ==
    LET r == py_int(env_mod_id)
    IN  [ok |-> r.ok, mod_id |-> IF r.ok THEN py_str(r.value) ELSE << >>]

\* a run of cli_main without --create-env, --config and --validate-key.
\* given/env: the MOD_ID of the environment, as given and as it is now;
\* arg: the text of --mod-id, empty when the option is absent (an empty
\* text is falsy as well); requested: the mod id of the first catalog request
CliRuns ==
    {[pc |-> "start", given |-> e, env |-> e, arg |-> a, api_key |-> k,
      mod_id |-> << >>, exit |-> -1, requested |-> << >>] :
        e \in Texts, a \in Texts, k \in BOOLEAN}

CliInit ==
    /\ files = << >>
    /\ latest_file = NoRecord
    /\ SelIdle
    /\ disk = NoDisk
    /\ EvalIdle
    /\ PassIdle
    /\ StoreIdle
    /\ RaceIdle
    /\ cli \in CliRuns

CliExit(code) == cli' = [cli EXCEPT !.pc = "exited", !.exit = code]

CliFrame ==
    UNCHANGED <<files, latest_file, selVars, evalVars, passVars, obsVars,
                storeVars, raceVars>>

\* cli_main line 76: config = get_config()
CliGetConfig ==
    /\ cli.pc = "start"
    /\ LET c == get_config(cli.env)
       IN  IF c.ok THEN cli' = [cli EXCEPT !.pc = "override", !.mod_id = c.mod_id]
                   ELSE CliExit(1)
    /\ CliFrame

\* cli_main lines 79-84: the --mod-id override through validate_mod_id
CliOverride ==
    /\ cli.pc = "override"
    /\ IF cli.arg = << >> THEN cli' = [cli EXCEPT !.pc = "validate"]
       ELSE LET r == validate_mod_id(cli.arg)
            IN  IF r.ok
                THEN cli' = [cli EXCEPT !.pc = "validate",
                                        !.mod_id = py_str(r.value)]
                ELSE CliExit(1)
    /\ CliFrame

\* cli_main lines 110-119: validate_config (API key, int(mod_id)) and the
\* export of the override to the environment
CliValidateConfig ==
    /\ cli.pc = "validate"
    /\ IF ~cli.api_key \/ ~py_int(cli.mod_id).ok THEN CliExit(1)
       ELSE cli' = [cli EXCEPT !.pc = "main",
                               !.env = IF cli.arg # << >> THEN cli.mod_id ELSE @]
    /\ CliFrame

\* cli_main line 122, main lines 33-57: get_config() again, then the
\* mod-info request for config["mod_id"]
CliMain ==
    /\ cli.pc = "main"
    /\ LET c == get_config(cli.env)
       IN  IF ~c.ok \/ ~cli.api_key THEN CliExit(1)
           ELSE cli' = [cli EXCEPT !.pc = "requested", !.requested = c.mod_id]
    /\ CliFrame

CliNext == CliGetConfig \/ CliOverride \/ CliValidateConfig \/ CliMain

SpecCli == CliInit /\ [][CliNext]_vars

\* ---------------------------------------------------- claims on SpecCli
PositiveInteger(t) == py_int(t).ok /\ py_int(t).value > 0

\* C19 (as claimed): a catalog request is made only if the mod identifier in
\* use, the --mod-id text when given and else MOD_ID, parses as a positive
\* integer, and the id requested is that positive integer; every other run
\* ends with exit status 1 before any request.
C19_ModIdPositive ==
    /\ cli.pc = "requested" =>
          /\ PositiveInteger(IF cli.arg # << >> THEN cli.arg ELSE cli.given)
          /\ PositiveInteger(cli.requested)
    /\ cli.pc = "exited" => (cli.exit = 1 /\ cli.requested = << >>)

\* ------------------------- SpecRace: two passes over one download directory
\* Each of two processes runs main() once.  The catalog queries and the
\* selection touch nothing the processes share; a pass is taken up where it
\* has selected its record.  Nothing in the code locks the directory: with
\* exclusive = FALSE the steps of the two passes interleave freely, with
\* exclusive = TRUE a pass starts only when the other is not running.
RaceProcs == {1, 2}

RaceRecords ==
    {FileRecord(id, FileNameOf(id), d, MaxLen, "url", FALSE, NoId, << >>) :
        id \in BuildIds, d \in Dates}

\* the locals of a pass; detached: the artifact this pass has open was
\* unlinked, its writes no longer reach the path; present_at_return: the
\* artifact was in the directory when main returned after record_download
ProcIdle ==
    [pc |-> "off", latest_file |-> NoRecord, metadata |-> << >>,
     needs_download |-> FALSE, dl_result |-> "none", opened |-> FALSE,
     detached |-> FALSE, downloaded |-> 0, exit_code |-> -1,
     present_at_return |-> FALSE]

RaceInit ==
    /\ files = << >>
    /\ latest_file = NoRecord
    /\ SelIdle
    /\ disk = NoDisk
    /\ EvalIdle
    /\ PassIdle
    /\ StoreIdle
    /\ CliIdle
    /\ procs = [p \in RaceProcs |-> ProcIdle]
    /\ exclusive \in BOOLEAN

RaceFrame ==
    UNCHANGED <<files, latest_file, selVars, stat_ok, metadata, needs_download,
                reason, evaluator, pc, exit_code, fetched, downloaded,
                dl_result, opened, passes, obsVars, storeVars, cliVars,
                exclusive>>

Max(a, b) == IF a >= b THEN a ELSE b

\* main() of process p has selected a record
RaceStart(p) ==
    /\ procs[p].pc = "off"
    /\ exclusive => \A q \in RaceProcs \ {p} : procs[q].pc \in {"off", "done"}
    /\ \E r \in RaceRecords :
          procs' = [procs EXCEPT ![p].pc = "check", ![p].latest_file = r]
    /\ UNCHANGED <<disk, store_doc>>
    /\ RaceFrame

\* load_metadata and is_download_needed (main.py 96-101, 117-119)
RaceCheck(p) ==
    /\ procs[p].pc = "check"
    /\ \E st \in BOOLEAN :
          /\ ~st => Exists(disk, procs[p].latest_file.fileName)
          /\ LET md == load_metadata(store_doc)
                 r == is_download_needed(procs[p].latest_file, disk, md, st)
             IN  procs' = [procs EXCEPT
                    ![p].metadata = md,
                    ![p].needs_download = r[1],
                    ![p].pc = IF r[1] THEN "download" ELSE "done",
                    ![p].exit_code = IF r[1] THEN @ ELSE 0]
    /\ UNCHANGED <<disk, store_doc>>
    /\ RaceFrame

\* the passes other than p that are writing the artifact called name lose
\* the path when it is unlinked
Detach(ps, p, name, unlinked) ==
    [q \in RaceProcs |->
        IF /\ q # p /\ unlinked /\ ps[q].pc = "stream"
           /\ ps[q].latest_file.fileName = name
        THEN [ps[q] EXCEPT !.detached = TRUE]
        ELSE ps[q]]

\* an except clause of download_file in process p, then main's test of the
\* result (main.py 106-116)
RaceCleanup(p, dsk) ==
    \E unlink_ok \in BOOLEAN :
        LET name == procs[p].latest_file.fileName
            c == Cleanup(dsk, name, unlink_ok)
            unlinked == Exists(dsk, name) /\ ~Exists(c.disk, name)
            ps == Detach(procs, p, name, unlinked)
        IN  /\ disk' = c.disk
            /\ procs' = [ps EXCEPT
                   ![p].dl_result = c.result,
                   ![p].pc = IF c.result = "true" THEN "record" ELSE "done",
                   ![p].exit_code = IF c.result = "true" THEN @ ELSE 1]

\* download_file up to the open of the artifact (downloader.py 25-42)
RaceRequest(p) ==
    /\ procs[p].pc = "download"
    /\ LET name == procs[p].latest_file.fileName
           made == [disk EXCEPT ![""] = 0]
       IN  \/ /\ disk' = [made EXCEPT ![name] = 0]
              /\ procs' = [procs EXCEPT ![p].pc = "stream", ![p].opened = TRUE]
           \/ RaceCleanup(p, made)
    /\ UNCHANGED store_doc
    /\ RaceFrame

\* one chunk written at the position of this pass in the file it has open
RaceChunk(p) ==
    /\ procs[p].pc = "stream"
    /\ procs[p].downloaded <= MaxLen
    /\ procs' = [procs EXCEPT ![p].downloaded = @ + 1]
    /\ disk' = IF procs[p].detached THEN disk
               ELSE [disk EXCEPT ![procs[p].latest_file.fileName] =
                                     Max(@, procs[p].downloaded + 1)]
    /\ UNCHANGED store_doc
    /\ RaceFrame

\* the stream ends without an error: download_file returns True
RaceEnd(p) ==
    /\ procs[p].pc = "stream"
    /\ procs' = [procs EXCEPT ![p].dl_result = "true", ![p].pc = "record"]
    /\ UNCHANGED <<disk, store_doc>>
    /\ RaceFrame

\* an exception in the stream
RaceFail(p) ==
    /\ procs[p].pc = "stream"
    /\ RaceCleanup(p, disk)
    /\ UNCHANGED store_doc
    /\ RaceFrame

\* record_download and the return 0 of main (main.py 107-110)
RaceRecord(p) ==
    /\ procs[p].pc = "record"
    /\ LET md == record_download(procs[p].latest_file, procs[p].metadata, p)
       IN  /\ \E outcome \in {"ok", "open failed", "write failed"} :
                 store_doc' = save_metadata(store_doc, md, outcome)
           /\ procs' = [procs EXCEPT
                  ![p].metadata = md,
                  ![p].pc = "done",
                  ![p].exit_code = 0,
                  ![p].present_at_return =
                      Exists(disk, procs[p].latest_file.fileName)]
    /\ UNCHANGED disk
    /\ RaceFrame

RaceNext ==
    \E p \in RaceProcs :
        \/ RaceStart(p)
        \/ RaceCheck(p)
        \/ RaceRequest(p)
        \/ RaceChunk(p)
        \/ RaceEnd(p)
        \/ RaceFail(p)
        \/ RaceRecord(p)

SpecRace == RaceInit /\ [][RaceNext]_vars

\* --------------------------------------------------- claims on SpecRace
\* pass p returned 0 after download_file returned True and its record is in
\* the store document
Delivered(p) ==
    /\ procs[p].pc = "done" /\ procs[p].exit_code = 0
    /\ procs[p].dl_result = "true"
    /\ store_doc.state = "ok"
    /\ str(procs[p].latest_file.id) \in DOMAIN store_doc.data

\* C20: when the passes never overlap, a pass that reported a successful
\* download and stored its record had its artifact in the directory when it
\* returned.  (That the state without the artifact is reached when passes
\* overlap is the witness below.)
C20_NoOverlapNoLoss ==
    exclusive => \A p \in RaceProcs : Delivered(p) => procs[p].present_at_return

\* C20 witness: with overlapping passes, pass p reported success and its
\* record is stored, but its artifact was not in the directory when it
\* returned and is not there now: the cleanup of the other pass, whose
\* download_file returned False, unlinked it.
C20_Witness ==
    /\ ~exclusive
    /\ \E p \in RaceProcs : \E q \in RaceProcs \ {p} :
          /\ Delivered(p)
          /\ ~procs[p].present_at_return
          /\ ~Exists(disk, procs[p].latest_file.fileName)
          /\ procs[q].dl_result = "false"
          /\ procs[q].latest_file.fileName = procs[p].latest_file.fileName

\* ------------------------------------------- more claims on Spec (C21..C23)
\* the artifact was at download_path / fileName when the pass evaluated it:
\* these answers of is_download_needed come after the test of its presence
\* and after the entry of the store was found
FoundLocally ==
    reason \in {"File updated", "Could not check local file size",
                "File size mismatch", "File hash mismatch"}

\* C21: whenever download_file returns False for a record that has a
\* downloadUrl, no file is at download_path / fileName afterwards, also when
\* the call failed before it opened the artifact and an artifact of an earlier
\* pass was there; the call leaves the store document as it was, so the
\* record of the earlier pass stays.
C21_FailedFetchRemovesOldArtifact ==
    /\ []((dl_result = "false" /\ Truthy(latest_file.downloadUrl)) =>
            ~Exists(disk, latest_file.fileName))
    /\ [][(pc = "download" /\ dl_result' = "false") =>
            store_doc' = store_doc]_vars

\* C21 witness: an earlier pass fetched and recorded the file, the catalog
\* then listed it with another date, the artifact was found at the check, the
\* request failed before the artifact was opened; the artifact is gone and
\* the store still holds the record of the earlier pass.
C21_Witness ==
    /\ pc = "done" /\ exit_code = 1
    /\ dl_result = "false" /\ ~opened /\ downloaded = 0
    /\ Truthy(latest_file.downloadUrl)
    /\ reason = "File updated" /\ FoundLocally
    /\ latest_file.id \in fetched
    /\ ~Exists(disk, latest_file.fileName)
    /\ store_doc.state = "ok"
    /\ str(latest_file.id) \in DOMAIN store_doc.data
    /\ store_doc.data[str(latest_file.id)].fileName = latest_file.fileName
    /\ store_doc.data[str(latest_file.id)].fileDate # latest_file.fileDate

\* the hash a catalog record declares: the value of its first algorithm-1
\* entry, None when it has none
DeclaredHash(file_info) ==
    LET at == {i \in DOMAIN file_info.hashes : file_info.hashes[i].algo = SHA1}
    IN  IF at = {} THEN None
        ELSE file_info.hashes[CHOOSE i \in at : \A j \in at : i <= j].value

\* a pass has fetched (download_file returned True) and recorded, and main
\* has returned
FetchedAndRecorded ==
    /\ pc = "done" /\ exit_code = 0
    /\ dl_result = "true"

\* C22: a fetch whose stream ended without error is reported as success and
\* recorded whatever the number of bytes written; the record's fileLength and
\* hash are the ones the selected catalog record declares, and unless the
\* save failed that record is in the store, also when the bytes written
\* differ from fileLength.
C22_RecordedIsDeclared ==
    FetchedAndRecorded =>
        LET key == str(latest_file.id)
        IN  /\ message = "Download completed and recorded successfully!"
            /\ key \in DOMAIN metadata
            /\ metadata[key].fileLength = latest_file.fileLength
            /\ metadata[key].hash = DeclaredHash(latest_file)
            /\ warning # "Could not save metadata" =>
                  /\ store_doc.state = "ok"
                  /\ key \in DOMAIN store_doc.data
                  /\ store_doc.data[key].fileLength = latest_file.fileLength
                  /\ PyStr(store_doc.data[key].hash) = DeclaredHash(latest_file)

\* C22 witness: the stream ended before any byte was written, the artifact is
\* empty, and the store holds the record with the declared length and hash.
C22_Witness ==
    /\ FetchedAndRecorded
    /\ downloaded = 0
    /\ disk[latest_file.fileName] = 0
    /\ latest_file.fileLength > 0
    /\ latest_file.hashes # << >>
    /\ store_doc.state = "ok"
    /\ store_doc.data[str(latest_file.id)].fileLength = latest_file.fileLength
    /\ store_doc.data[str(latest_file.id)].hash = "h1"

\* load_metadata reads the document without an error: there is none, or it
\* holds a JSON object
LoadsWithoutError(doc) == doc.state \in {"missing", "ok"}

\* C23: record_download creates or overwrites only the entry keyed by
\* str(selected.id) of the loaded dict and leaves every other entry as it
\* was; the store document is written by that step only, and across any step
\* before and after which the document loads without error no key is lost,
\* at most the key str(selected.id) is added and every other record is
\* unchanged (one record per key: the document is a mapping).
C23_RecordDownloadFrame ==
    [][LET key == str(latest_file.id)
       IN  /\ metadata' # metadata /\ pc = "record" =>
                /\ DOMAIN metadata' = DOMAIN metadata \cup {key}
                /\ \A k \in DOMAIN metadata \ {key} : metadata'[k] = metadata[k]
           /\ store_doc' # store_doc =>
                /\ pc = "record"
                /\ (LoadsWithoutError(store_doc) /\ LoadsWithoutError(store_doc')) =>
                      /\ DOMAIN store_doc.data \subseteq DOMAIN store_doc'.data
                      /\ DOMAIN store_doc'.data \subseteq
                            DOMAIN store_doc.data \cup {key}
                      /\ \A k \in DOMAIN store_doc.data \ {key} :
                            store_doc'.data[k] = store_doc.data[k]]_vars

\* C23 witness: a second pass has recorded another file id and the store
\* holds its record next to the record of the first pass.
C23_Witness ==
    /\ FetchedAndRecorded
    /\ passes = 2
    /\ store_doc.state = "ok"
    /\ str(latest_file.id) \in DOMAIN store_doc.data
    /\ \E k \in DOMAIN store_doc.data :
          /\ k # str(latest_file.id)
          /\ store_doc.data[k].downloadedAt = 1
    /\ store_doc.data[str(latest_file.id)].downloadedAt = 2

====
